---- MODULE Spec2Model ----
(***************************************************************************)
(* Model of src/agentic_workflow_demo.py, a Streamlit wizard.              *)
(*                                                                         *)
(* Streamlit executes the whole script once per browser interaction and    *)
(* once per st.rerun().  One step of the model is one execution of the     *)
(* script ("script run"): the widget values of that execution are the      *)
(* inputs, st.session_state is the state that survives between runs.       *)
(* st.button(label) is True in a run only when the button with that label  *)
(* was on the page produced by the previous run, was clicked, and the run  *)
(* reaches the st.button call.  st.rerun() and st.stop() end the run at    *)
(* once (their exceptions derive from BaseException, so the                *)
(* "except Exception" handlers of the script do not catch them).           *)
(*                                                                         *)
(* Strings are modelled as sequences of pieces: the text typed by the      *)
(* clinician is a sequence of characters, a literal is a one-piece         *)
(* sequence, and an f-string is the concatenation of its parts.            *)
(*                                                                         *)
(* The setup part of the script (lines 25-47: model loading, Supabase      *)
(* client) is taken to have succeeded.  The three debugging buttons that   *)
(* insert test rows (lines 50-62, 169-176, 337-350) are not part of the    *)
(* workflow and are left out; a click on one of them starts a run without  *)
(* a workflow button, which is what a change of a sidebar widget does too. *)
(*                                                                         *)
(* Time: every call of datetime.utcnow() reads a clock that has advanced   *)
(* since the previous call (two calls are always separated by a remote     *)
(* insert).                                                                *)
(***************************************************************************)
EXTENDS Integers, Sequences, FiniteSets, TLC

\* ---------------------------------------------------------------------
\* Bounds of the model
\* ---------------------------------------------------------------------
MaxUuid == 9     \* number of uuid.uuid4() calls in one behaviour
MaxFaults == 1   \* number of inserts the sink rejects in one behaviour

\* Texts the clinician types into the text area
Whitespace == {" "}
Texts == { <<>>, <<" ", " ">>, <<" ", "a", " ">> }

\* Outcomes of the text2text pipeline call: generated text, or an exception
\* whose str() is err.
HfOutcomes ==
  { [ok |-> TRUE,  text |-> <<"generated">>, err |-> <<>>],
    [ok |-> FALSE, text |-> <<>>,            err |-> <<"backend fault">>] }

None == <<"None">>

\* ---------------------------------------------------------------------
\* Button labels
\* ---------------------------------------------------------------------
B_Detect == "Detect and Summarize Entry"
B_Proceed == "Proceed to attach summarisation"
B_Yes == "Yes, fetch guidelines"
B_No == "No, stop here"
B_Retry == "Retry"
B_Stop == "Stop workflow"
B_Submit == "Submit Case"
B_Restart == "Restart Demo"
NoClick == ""

VARIABLES
  session_state,   \* st.session_state: session_id, stage, inputs,
                   \* stage_start_time, last_activity_time, simulate_failure
  USE_HF,          \* value of the sidebar toggle "Use Hugging Face AI"
  sink,            \* rows of the Supabase table user_events, in insert order
  buttons,         \* labels of the buttons on the page the last run produced
  rerun,           \* TRUE when the last run ended in st.rerun()
  clock,           \* last reading of datetime.utcnow()
  uuid_count,      \* number of uuid.uuid4() calls made so far
  faults,          \* number of inserts the sink has rejected so far
  abandoned,       \* stage at which a stop branch ended the run (0: none)
  run_start,       \* number of rows the sink held at the last restart
  last             \* what the last script run was given and what it called

vars == <<session_state, USE_HF, sink, buttons, rerun, clock, uuid_count,
          faults, abandoned, run_start, last>>

\* ---------------------------------------------------------------------
\* Pure helpers
\* ---------------------------------------------------------------------
RECURSIVE lstrip(_)
lstrip(s) ==
  IF Len(s) > 0 /\ s[1] \in Whitespace THEN lstrip(Tail(s)) ELSE s

RECURSIVE rstrip(_)
rstrip(s) ==
  IF Len(s) > 0 /\ s[Len(s)] \in Whitespace
    THEN rstrip(SubSeq(s, 1, Len(s) - 1))
    ELSE s

\* a strip that removes nothing
strip_identity(s) == s

\* str.strip()
strip(s) == rstrip(lstrip(s))

\* an assignment that replaces the dict by {k: v}
SetItem_replace(d, k, v) == [x \in {k} |-> v]

\* dict item assignment d[k] = v
SetItem(d, k, v) ==
  [x \in (DOMAIN d) \cup {k} |-> IF x = k THEN v ELSE d[x]]

EmptyDict == <<>>

\* generate_response that returns an empty string when the pipeline raises
generate_response_blank_on_error(prompt, use_hf, hf) ==
  IF ~use_hf
    THEN <<"[Mock AI] Response for: ">> \o prompt
    ELSE IF hf.ok THEN hf.text ELSE <<>>

\* generate_response(prompt), with the outcome hf of the pipeline call
generate_response(prompt, use_hf, hf) ==
  IF ~use_hf
    THEN <<"[Mock AI] Response for: ">> \o prompt
    ELSE IF hf.ok THEN hf.text ELSE <<"[AI Error] ">> \o hf.err

\* The outcomes of the hf_model calls made by one generate_response call
pipeline_calls(use_hf, hf) == IF use_hf THEN <<hf>> ELSE <<>>

\* a prompt built from the trimmed text
summarize_prompt_stripped(patient_input) ==
  <<"summarize: ">> \o strip(patient_input)

\* f"summarize: {patient_input}"
summarize_prompt(patient_input) == <<"summarize: ">> \o patient_input

\* a maybe_fail that draws whatever the checkbox says
maybe_fail_always_random(simulate_failure, choice) == choice

\* maybe_fail(), with the result choice of random.choice([True, False])
maybe_fail(simulate_failure, choice) ==
  IF simulate_failure THEN choice ELSE TRUE


\* supabase.table("user_events").insert(row).execute(): the row is stored
\* when the call succeeds, and nothing is stored when it raises
Insert(row, ok) == IF ok THEN <<row>> ELSE <<>>

\* ---------------------------------------------------------------------
\* log_to_supabase
\* ---------------------------------------------------------------------
\* The row with the two timestamps exchanged
EventData_swapped(ss, sid, stage_number, user_input, ai_output, button_clicked, completed, now) ==
  [ session_id      |-> sid,
    stage_number    |-> stage_number,
    user_input      |-> user_input,
    ai_output       |-> ai_output,
    timestamp_start |-> now,
    timestamp_end   |-> ss.stage_start_time,
    duration_sec    |-> now - ss.stage_start_time,
    abandoned_at_stage |-> IF ~completed THEN <<stage_number>> ELSE None,
    search_frequency |-> 0,
    button_clicked  |-> button_clicked,
    completed       |-> completed,
    last_info_received_prior_to_abandonment |->
                        IF ~completed THEN ai_output ELSE None ]

\* The row built at lines 119-132; sid is the value of the local session_id
EventData(ss, sid, stage_number, user_input, ai_output, button_clicked, completed, now) ==
  [ session_id      |-> sid,
    stage_number    |-> stage_number,
    user_input      |-> user_input,
    ai_output       |-> ai_output,
    timestamp_start |-> ss.stage_start_time,
    timestamp_end   |-> now,
    duration_sec    |-> now - ss.stage_start_time,
    abandoned_at_stage |-> IF ~completed THEN <<stage_number>> ELSE None,
    search_frequency |-> 0,
    button_clicked  |-> button_clicked,
    completed       |-> completed,
    last_info_received_prior_to_abandonment |->
                        IF ~completed THEN ai_output ELSE None ]

\* log_to_supabase whose first insert is not inside a try block: a rejected
\* insert ends the call with an exception
log_to_supabase_unguarded(ss, stage_number, user_input, ai_output, button_clicked, completed, w, env) ==
  LET now  == env.now
      data == EventData(ss, env.uuid, stage_number, user_input, ai_output,
                        button_clicked, completed, now)
  IN IF env.ok1
       THEN [ ss       |-> [ss EXCEPT !.stage_start_time = now,
                                      !.last_activity_time = now],
              inserted |-> <<data>> \o Insert(data, env.ok2),
              data     |-> data,
              oks      |-> <<env.ok1, env.ok2>>,
              raised   |-> FALSE ]
       ELSE [ ss       |-> ss,
              inserted |-> <<>>,
              data     |-> data,
              oks      |-> <<env.ok1>>,
              raised   |-> TRUE ]

\* log_to_supabase(stage_number, user_input, ai_output, button_clicked,
\* completed) called in a run with widget values w and environment env.
\* Result: the session state after the call, the rows stored, the row that
\* was sent, the outcomes of its two inserts, and whether the call raised.
log_to_supabase(ss, stage_number, user_input, ai_output, button_clicked, completed, w, env) ==
  LET now  == env.now
      \* line 118 replaces the session's id by a fresh uuid4
      sid  == env.uuid
      data == EventData(ss, sid, stage_number, user_input, ai_output,
                        button_clicked, completed, now)
      \* lines 137-145 and 156-166: two inserts of the same row, each in
      \* its own try/except
      first  == Insert(data, env.ok1)
      second == Insert(data, env.ok2)
  IN [ ss       |-> [ss EXCEPT !.stage_start_time = now,
                               !.last_activity_time = now],
       inserted |-> first \o second,
       data     |-> data,
       oks      |-> <<env.ok1, env.ok2>>,
       raised   |-> FALSE ]

\* ---------------------------------------------------------------------
\* Results of the stage branches
\* ---------------------------------------------------------------------
\* A branch that called nothing: page with buttons btns, script goes on
Quiet(ss, btns) ==
  [ ss |-> ss, inserted |-> <<>>, buttons |-> btns, end |-> "done",
    uuids |-> 0, data |-> <<>>, prompts |-> <<>>, hf |-> <<>>,
    coin |-> <<>>, oks |-> <<>>, mark |-> "" ]

\* A branch that called log_to_supabase (result l) and ended with end
Logged(l, ss, btns, end) ==
  [ ss |-> ss, inserted |-> l.inserted, buttons |-> btns,
    end |-> end, uuids |-> 1, data |-> <<l.data>>, prompts |-> <<>>,
    hf |-> <<>>, coin |-> <<>>, oks |-> l.oks, mark |-> "" ]

\* ---------------------------------------------------------------------
\* The stage branches (lines 217-315)
\* ---------------------------------------------------------------------
stage1(ss, w, env) ==
  IF w.clicked = B_Detect
    THEN IF strip(w.patient_input) = <<>>
           THEN Quiet(ss, {B_Detect})
           ELSE LET prompt  == summarize_prompt(w.patient_input)
                    summary == generate_response(prompt, w.USE_HF, env.hf)
                    called  == pipeline_calls(w.USE_HF, env.hf)
                    ss1 == [ss EXCEPT !.inputs = SetItem(@, "summary", summary)]
                    l   == log_to_supabase(ss1, 1, w.patient_input, summary,
                                           B_Detect, FALSE, w, env)
                IN IF l.raised
                     THEN [Logged(l, l.ss, {B_Detect}, "error")
                             EXCEPT !.prompts = <<prompt>>, !.hf = called]
                     ELSE [Logged(l, [l.ss EXCEPT !.stage = 2], {B_Detect},
                                  "rerun")
                             EXCEPT !.prompts = <<prompt>>, !.hf = called]
    ELSE Quiet(ss, {B_Detect})

\* stage 2 whose event carries the number of the next stage
stage2_logs_next(ss, w, env) ==
  IF w.clicked = B_Proceed
    THEN LET l == log_to_supabase(ss, 3, <<"Confirmed summary">>, <<>>,
                                  B_Proceed, FALSE, w, env)
         IN Logged(l, [l.ss EXCEPT !.stage = 3], {B_Proceed}, "rerun")
    ELSE Quiet(ss, {B_Proceed})

\* stage 2 whose button sets the stage to 4
stage2_skip(ss, w, env) ==
  IF w.clicked = B_Proceed
    THEN LET l == log_to_supabase(ss, 2, <<"Confirmed summary">>, <<>>,
                                  B_Proceed, FALSE, w, env)
         IN IF l.raised
              THEN Logged(l, l.ss, {B_Proceed}, "error")
              ELSE Logged(l, [l.ss EXCEPT !.stage = 4], {B_Proceed}, "rerun")
    ELSE Quiet(ss, {B_Proceed})

stage2(ss, w, env) ==
  IF w.clicked = B_Proceed
    THEN LET l == log_to_supabase(ss, 2, <<"Confirmed summary">>, <<>>,
                                  B_Proceed, FALSE, w, env)
         IN IF l.raised
              THEN Logged(l, l.ss, {B_Proceed}, "error")
              ELSE Logged(l, [l.ss EXCEPT !.stage = 3], {B_Proceed}, "rerun")
    ELSE Quiet(ss, {B_Proceed})

stage3(ss, w, env) ==
  IF w.clicked = B_Yes
    THEN LET l == log_to_supabase(ss, 3, <<"Yes">>, <<>>, B_Yes, FALSE, w, env)
         IN IF l.raised
              THEN Logged(l, l.ss, {B_Yes}, "error")
              ELSE Logged(l, [l.ss EXCEPT !.stage = 4], {B_Yes}, "rerun")
    ELSE IF w.clicked = B_No
      THEN LET l == log_to_supabase(ss, 3, <<"No">>,
                                    <<"User stopped at stage 3">>, B_No,
                                    FALSE, w, env)
           IN IF l.raised
                THEN Logged(l, l.ss, {B_Yes, B_No}, "error")
                ELSE [Logged(l, l.ss, {B_Yes, B_No}, "stop")
                        EXCEPT !.mark = "stopped"]
      ELSE Quiet(ss, {B_Yes, B_No})

stage4(ss, w, env) ==
  LET success == maybe_fail(ss.simulate_failure, env.choice)
      coin    == <<success>>
  IN IF success
       THEN LET prompt == <<"Provide imaging guidelines based on patient symptoms.">>
                guidelines == generate_response(prompt, w.USE_HF, env.hf)
                called == pipeline_calls(w.USE_HF, env.hf)
                ss1 == [ss EXCEPT !.inputs = SetItem(@, "guidelines", guidelines)]
                l   == log_to_supabase(ss1, 4, <<"Request guidelines">>,
                                       guidelines, "Fetch guidelines", FALSE,
                                       w, env)
            IN IF l.raised
                 \* lines 279-283: the exception is shown and the run stopped
                 THEN [Logged(l, l.ss, {}, "stop")
                         EXCEPT !.prompts = <<prompt>>, !.hf = called,
                                !.coin = coin]
                 ELSE [Logged(l, [l.ss EXCEPT !.stage = 5], {}, "rerun")
                         EXCEPT !.prompts = <<prompt>>, !.hf = called,
                                !.coin = coin]
       ELSE IF w.clicked = B_Retry
         THEN LET l == log_to_supabase(ss, 4, <<"Retry">>, <<>>, B_Retry,
                                       FALSE, w, env)
              IN IF l.raised
                   THEN [Logged(l, l.ss, {B_Retry}, "stop") EXCEPT !.coin = coin]
                   ELSE [Logged(l, l.ss, {B_Retry}, "rerun") EXCEPT !.coin = coin]
         ELSE IF w.clicked = B_Stop
           THEN LET l == log_to_supabase(ss, 4, <<"Stop">>,
                                         <<"User stopped after failure">>,
                                         B_Stop, FALSE, w, env)
                IN IF l.raised
                     THEN [Logged(l, l.ss, {B_Retry, B_Stop}, "stop")
                             EXCEPT !.coin = coin]
                     ELSE [Logged(l, l.ss, {B_Retry, B_Stop}, "stop")
                             EXCEPT !.coin = coin, !.mark = "stopped"]
           ELSE [Quiet(ss, {B_Retry, B_Stop}) EXCEPT !.coin = coin]

\* stage 5 whose event is sent with completed=True
stage5_completed(ss, w, env) ==
  IF w.clicked = B_Submit
    THEN LET l == log_to_supabase(ss, 5, <<"Submit">>, <<>>, B_Submit, TRUE,
                                  w, env)
         IN Logged(l, [l.ss EXCEPT !.stage = 6], {B_Submit}, "rerun")
    ELSE Quiet(ss, {B_Submit})

stage5(ss, w, env) ==
  IF w.clicked = B_Submit
    THEN LET l == log_to_supabase(ss, 5, <<"Submit">>, <<>>, B_Submit, FALSE,
                                  w, env)
         IN IF l.raised
              THEN Logged(l, l.ss, {B_Submit}, "error")
              ELSE Logged(l, [l.ss EXCEPT !.stage = 6], {B_Submit}, "rerun")
    ELSE Quiet(ss, {B_Submit})

\* stage 6 whose restart handler also draws a new session_id
stage6_new_session_id(ss, w, env) ==
  LET l == log_to_supabase(ss, 6, <<"Final submission">>, <<"Completed">>,
                           "Submission Preview", TRUE, w, env)
  IN IF w.clicked = B_Restart
       THEN [Logged(l, [l.ss EXCEPT !.stage = 1,
                                    !.inputs = EmptyDict,
                                    !.session_id = env.uuid + 1,
                                    !.stage_start_time = env.now2],
                    {B_Restart}, "rerun")
               EXCEPT !.mark = "restarted", !.uuids = 2]
       ELSE Logged(l, l.ss, {B_Restart}, "done")

\* stage 6 whose restart handler keeps the inputs
stage6_keep_inputs(ss, w, env) ==
  LET l == log_to_supabase(ss, 6, <<"Final submission">>, <<"Completed">>,
                           "Submission Preview", TRUE, w, env)
  IN IF w.clicked = B_Restart
       THEN [Logged(l, [l.ss EXCEPT !.stage = 1,
                                    !.stage_start_time = env.now2],
                    {B_Restart}, "rerun")
               EXCEPT !.mark = "restarted"]
       ELSE Logged(l, l.ss, {B_Restart}, "done")

stage6(ss, w, env) ==
  LET l == log_to_supabase(ss, 6, <<"Final submission">>, <<"Completed">>,
                           "Submission Preview", TRUE, w, env)
  IN IF l.raised
       THEN Logged(l, l.ss, {}, "error")
       ELSE IF w.clicked = B_Restart
         THEN [Logged(l, [l.ss EXCEPT !.stage = 1,
                                      !.inputs = EmptyDict,
                                      !.stage_start_time = env.now2],
                      {B_Restart}, "rerun")
                 EXCEPT !.mark = "restarted"]
         ELSE Logged(l, l.ss, {B_Restart}, "done")


\* ---------------------------------------------------------------------
\* One execution of the script
\* ---------------------------------------------------------------------
script(ss0, w, env) ==
  LET \* line 90
      ss1   == [ss0 EXCEPT !.simulate_failure = w.simulate_failure]
      \* line 104
      stage == ss1.stage
  IN CASE stage = 1 -> stage1(ss1, w, env)
       [] stage = 2 -> stage2(ss1, w, env)
       [] stage = 3 -> stage3(ss1, w, env)
       [] stage = 4 -> stage4(ss1, w, env)
       [] stage = 5 -> stage5(ss1, w, env)
       [] stage = 6 -> stage6(ss1, w, env)
       [] OTHER     -> Quiet(ss1, {})

\* ---------------------------------------------------------------------
\* Initial state: the page after the first run of a new browser session
\* ---------------------------------------------------------------------
Init ==
  /\ session_state = [ session_id         |-> 0,
                       stage              |-> 1,
                       inputs             |-> EmptyDict,
                       stage_start_time   |-> 0,
                       last_activity_time |-> 0,
                       simulate_failure   |-> FALSE ]
  /\ USE_HF = TRUE
  /\ sink = <<>>
  /\ buttons = {B_Detect}
  /\ rerun = FALSE
  /\ clock = 0
  /\ uuid_count = 1
  /\ faults = 0
  /\ abandoned = 0
  /\ run_start = 0
  /\ last = [ clicked |-> NoClick, patient_input |-> <<>>, stage |-> 1,
              USE_HF |-> TRUE, data |-> <<>>, prompts |-> <<>>,
              hf |-> <<>>, coin |-> <<>>, oks |-> <<>>, end |-> "done" ]

\* ---------------------------------------------------------------------
\* A script run with widget values w in environment env
\* ---------------------------------------------------------------------
Run(w, env) ==
  \E r \in {script(session_state, w, env)} :
  \E rejected \in {Cardinality({i \in DOMAIN r.oks : ~r.oks[i]})} :
  /\ uuid_count + r.uuids <= MaxUuid
  /\ faults + rejected <= MaxFaults
  /\ session_state' = r.ss
  /\ USE_HF' = w.USE_HF
  /\ sink' = sink \o r.inserted
  /\ rerun' = (r.end = "rerun")
  /\ buttons' = IF r.end = "rerun" THEN {} ELSE r.buttons
  /\ clock' = IF r.mark = "restarted" THEN env.now2
              ELSE IF r.uuids > 0 THEN env.now
              ELSE clock
  /\ uuid_count' = uuid_count + r.uuids
  /\ faults' = faults + rejected
  /\ abandoned' = IF r.mark = "stopped" THEN session_state.stage
                  ELSE IF r.mark = "restarted" THEN 0
                  ELSE abandoned
  /\ run_start' = IF r.mark = "restarted" THEN Len(sink') ELSE run_start
  /\ last' = [ clicked |-> w.clicked, patient_input |-> w.patient_input,
               stage |-> session_state.stage, USE_HF |-> w.USE_HF,
               data |-> r.data,
               prompts |-> r.prompts, hf |-> r.hf, coin |-> r.coin,
               oks |-> r.oks,
               end |-> r.end ]

\* The environment's answers a run can consume
Choices(sim) ==
  IF session_state.stage = 4 THEN BOOLEAN ELSE {TRUE}
Hfs(use_hf) ==
  IF use_hf /\ session_state.stage \in {1, 4}
    THEN HfOutcomes
    ELSE {[ok |-> TRUE, text |-> <<"generated">>, err |-> <<>>]}
Oks(clicked) ==
  IF session_state.stage \in {4, 6}
     \/ clicked \in {B_Detect, B_Proceed, B_Yes, B_No, B_Submit}
    THEN BOOLEAN ELSE {TRUE}

Step(clicked, text, use_hf, sim) ==
  \E choice \in Choices(sim), hf \in Hfs(use_hf),
     ok1 \in Oks(clicked), ok2 \in Oks(clicked) :
      Run([ clicked |-> clicked, patient_input |-> text,
            USE_HF |-> use_hf, simulate_failure |-> sim ],
          [ now |-> clock + 1, now2 |-> clock + 2, uuid |-> uuid_count,
            choice |-> choice, hf |-> hf, ok1 |-> ok1, ok2 |-> ok2 ])

\* A button can be clicked when it is on the page and no rerun is pending
Clickable(label) == ~rerun /\ label \in buttons

\* ---------------------------------------------------------------------
\* Operator actions
\* ---------------------------------------------------------------------
Click_Detect ==
  /\ Clickable(B_Detect)
  /\ \E text \in Texts :
       Step(B_Detect, text, USE_HF, session_state.simulate_failure)

Click_Proceed ==
  /\ Clickable(B_Proceed)
  /\ Step(B_Proceed, <<>>, USE_HF, session_state.simulate_failure)

Click_Yes ==
  /\ Clickable(B_Yes)
  /\ Step(B_Yes, <<>>, USE_HF, session_state.simulate_failure)

Click_No ==
  /\ Clickable(B_No)
  /\ Step(B_No, <<>>, USE_HF, session_state.simulate_failure)

Click_Retry ==
  /\ Clickable(B_Retry)
  /\ Step(B_Retry, <<>>, USE_HF, session_state.simulate_failure)

Click_Stop ==
  /\ Clickable(B_Stop)
  /\ Step(B_Stop, <<>>, USE_HF, session_state.simulate_failure)

Click_Submit ==
  /\ Clickable(B_Submit)
  /\ Step(B_Submit, <<>>, USE_HF, session_state.simulate_failure)

Click_Restart ==
  /\ Clickable(B_Restart)
  /\ Step(B_Restart, <<>>, USE_HF, session_state.simulate_failure)

\* The sidebar widgets: changing one starts a run with the new value
Toggle_USE_HF ==
  /\ ~rerun
  /\ Step(NoClick, <<>>, ~USE_HF, session_state.simulate_failure)

Toggle_simulate_failure ==
  /\ ~rerun
  /\ Step(NoClick, <<>>, USE_HF, ~session_state.simulate_failure)

\* The run started by st.rerun()
Rerun ==
  /\ rerun
  /\ Step(NoClick, <<>>, USE_HF, session_state.simulate_failure)

Next ==
  \/ Click_Detect
  \/ Click_Proceed
  \/ Click_Yes
  \/ Click_No
  \/ Click_Retry
  \/ Click_Stop
  \/ Click_Submit
  \/ Click_Restart
  \/ Toggle_USE_HF
  \/ Toggle_simulate_failure
  \/ Rerun

Spec == Init /\ [][Next]_vars


\* ---------------------------------------------------------------------
\* Vocabulary of the properties
\* ---------------------------------------------------------------------
stage == session_state.stage
inputs == session_state.inputs

\* The text consists of whitespace only
IsBlank(text) == \A i \in 1..Len(text) : text[i] = " "

\* The rows of the sink that log_to_supabase built
TelemetryEvents == SelectSeq(sink, LAMBDA row : "button_clicked" \in DOMAIN row)

\* The last run called log_to_supabase and the sink rejected an insert
SinkFailed == \E i \in DOMAIN last.oks : ~last.oks[i]

\* The last run called log_to_supabase and the sink accepted every insert
SinkAccepted == last.oks # <<>> /\ \A i \in DOMAIN last.oks : last.oks[i]

\* ---------------------------------------------------------------------
\* Properties
\* ---------------------------------------------------------------------

\* C1: in every step the stage stays the same, increases by exactly 1, or is
\* reset to 1 by a click on the restart button; it always lies in 1..6.
C1_StageStepsByOne ==
  /\ [](stage \in 1..6)
  /\ [][ \/ stage' = stage
         \/ stage' = stage + 1
         \/ (stage' = 1 /\ last'.clicked = B_Restart) ]_vars

C1_Witness == stage = 1 /\ last.stage = 6 /\ last.clicked = B_Restart

\* C2: once the operator has chosen "No, stop here" at stage 3, no later
\* action other than restart changes the stage or the inputs.
C2_NothingAcceptedAfterNo ==
  [][ (abandoned = 3 /\ last'.clicked # B_Restart)
        => (stage' = stage /\ inputs' = inputs) ]_vars

\* C3: a click on "Stop workflow" in the failed state of stage 4 abandons the
\* session, and from then on the stage never becomes 5.
C3_StopAbandonsStage4 ==
  [][ (last'.clicked = B_Stop \/ abandoned = 4) => stage' # 5 ]_vars

\* C4: from the failed state of stage 4 (the page that offers Retry), the
\* stage becomes 5 only in a run started by a click on Retry.
C4_OnlyRetryLeavesFailedState ==
  [][ (stage = 4 /\ B_Retry \in buttons /\ stage' = 5)
        => last'.clicked = B_Retry ]_vars

\* C5: every telemetry event in the sink carries the session's session_id.
C5_EventsCarrySessionId ==
  \A i \in DOMAIN TelemetryEvents :
    TelemetryEvents[i].session_id = session_state.session_id

\* C6: a run delivers at most one telemetry event, exactly one when it
\* processed an action and the sink accepted it, and none when no operator
\* action took place (the automatic retrieval at stage 4 counts as one).
C6_ExactlyOneEventPerAction ==
  [][ LET n == Len(TelemetryEvents') - Len(TelemetryEvents) IN
      /\ n <= 1
      /\ SinkAccepted' => n = 1
      /\ (last'.clicked = NoClick /\ stage # 4) => n = 0 ]_vars

\* C7: a click on "Detect and Summarize Entry" with a text that is empty
\* after trimming leaves the stage at 1 and the inputs unchanged, calls
\* neither generate_response nor log_to_supabase, and stores no row.
C7_BlankIntakeRejected ==
  [][ (last'.clicked = B_Detect /\ IsBlank(last'.patient_input))
        => /\ stage = 1 /\ stage' = 1
           /\ inputs' = inputs
           /\ last'.prompts = <<>>
           /\ last'.data = <<>>
           /\ sink' = sink ]_vars

C7_Witness ==
  /\ last.clicked = B_Detect
  /\ last.patient_input = <<" ", " ">>
  /\ stage = 1

\* The strings generate_response can return for a prompt
GenerateResults(prompt, use_hf) ==
  IF use_hf
    THEN {<<"generated">>, <<"[AI Error] ", "backend fault">>}
    ELSE {<<"[Mock AI] Response for: ">> \o prompt}

\* C8: a click on "Detect and Summarize Entry" with a text that is not empty
\* after trimming calls generate_response with "summarize: " + text, stores
\* its result as inputs["summary"], sends a telemetry event with stage_number
\* 1 and completed false that carries the text and the summary, and leaves
\* the stage at 2.
C8_IntakeStoresSummary ==
  [][ (last'.clicked = B_Detect /\ ~IsBlank(last'.patient_input))
        => LET text   == last'.patient_input
               prompt == <<"summarize: ">> \o text
           IN /\ last'.prompts = <<prompt>>
              /\ "summary" \in DOMAIN inputs'
              /\ inputs'["summary"] \in GenerateResults(prompt, last'.USE_HF)
              /\ Len(last'.data) = 1
              /\ last'.data[1].stage_number = 1
              /\ last'.data[1].completed = FALSE
              /\ last'.data[1].user_input = text
              /\ last'.data[1].ai_output = inputs'["summary"]
              /\ \A i \in (Len(sink) + 1)..Len(sink') :
                   sink'[i] = last'.data[1]
              /\ stage' = 2 ]_vars

C8_Witness ==
  /\ last.clicked = B_Detect
  /\ last.patient_input = <<" ", "a", " ">>
  /\ ~last.USE_HF
  /\ stage = 2
  /\ inputs["summary"] =
       <<"[Mock AI] Response for: ", "summarize: ", " ", "a", " ">>

\* C9: a run in which the sink rejects an insert ends in the same stage and
\* with the same inputs as a run in which the sink accepts every insert:
\* stage 2 with the summary stored after the intake, stage 3 after the
\* acknowledgement, stage 4 after "yes", stage 5 with the guidelines stored
\* after a successful retrieval, stage 6 after the submission.
C9_SinkFailureDoesNotBlock ==
  [][ SinkFailed'
        => /\ last'.clicked = B_Detect
                => (stage' = 2 /\ DOMAIN inputs' = {"summary"}
                    /\ inputs'["summary"] = last'.data[1].ai_output)
           /\ last'.clicked = B_Proceed
                => (stage' = 3 /\ inputs' = inputs)
           /\ last'.clicked = B_Yes
                => (stage' = 4 /\ inputs' = inputs)
           /\ (stage = 4 /\ last'.coin = <<TRUE>>)
                => (stage' = 5
                    /\ DOMAIN inputs' = {"summary", "guidelines"}
                    /\ inputs'["summary"] = inputs["summary"]
                    /\ inputs'["guidelines"] = last'.data[1].ai_output)
           /\ last'.clicked = B_Submit
                => (stage' = 6 /\ inputs' = inputs) ]_vars

C9_Witness ==
  /\ SinkFailed
  /\ last.clicked = B_Submit
  /\ stage = 6
  /\ DOMAIN inputs = {"summary", "guidelines"}

\* C10: when the pipeline call raises during the intake, the run does not
\* fail: the string "[AI Error] " + str(e) is stored as inputs["summary"]
\* and the stage becomes 2.
C10_GenerationFailureSwallowed ==
  [][ (last'.clicked = B_Detect /\ last'.hf # <<>> /\ ~last'.hf[1].ok)
        => /\ inputs'["summary"] = <<"[AI Error] ">> \o last'.hf[1].err
           /\ stage' = 2
           /\ last'.end = "rerun" ]_vars

C10_Witness ==
  /\ last.clicked = B_Detect
  /\ last.hf # <<>> /\ ~last.hf[1].ok
  /\ stage = 2
  /\ inputs["summary"] = <<"[AI Error] ", "backend fault">>


C12_RestartResetsStageAndInputs ==
  [][ last'.clicked = B_Restart
        => /\ stage = 6
           /\ stage' = 1
           /\ DOMAIN inputs' = {} ]_vars

C12_Witness ==
  /\ last.clicked = B_Restart
  /\ last.stage = 6
  /\ stage = 1
  /\ DOMAIN inputs = {}
  /\ \E i \in DOMAIN sink : sink[i].stage_number = 4

\* C13: the run that processes a click on the restart button stores no row
\* in the sink.
C13_RestartEmitsNothing ==
  [][ last'.clicked = B_Restart => sink' = sink ]_vars


\* C14: every run started by a click on Retry sends a telemetry event with
\* stage_number 4, button_clicked "Retry" and completed false, whatever the
\* failure decision of that run is.
C14_EveryRetryIsLogged ==
  [][ last'.clicked = B_Retry
        => /\ Len(last'.data) = 1
           /\ last'.data[1].stage_number = 4
           /\ last'.data[1].button_clicked = B_Retry
           /\ last'.data[1].completed = FALSE ]_vars

\* C15: a run at stage 4 with the simulate-failure checkbox unticked decides
\* success, calls generate_response, stores its result as
\* inputs["guidelines"], sends one telemetry event with stage_number 4 and
\* completed false, and sets the stage to 5; the page that offers Retry is
\* never shown while the checkbox is unticked.
C15_NoFailureWithoutSimulation ==
  /\ [](B_Retry \in buttons => session_state.simulate_failure)
  /\ [][ (stage = 4 /\ ~session_state'.simulate_failure)
           => /\ last'.coin = <<TRUE>>
              /\ last'.prompts =
                   << <<"Provide imaging guidelines based on patient symptoms.">> >>
              /\ "guidelines" \in DOMAIN inputs'
              /\ Len(last'.data) = 1
              /\ last'.data[1].stage_number = 4
              /\ last'.data[1].completed = FALSE
              /\ last'.data[1].ai_output = inputs'["guidelines"]
              /\ stage' = 5 ]_vars

C15_Witness ==
  /\ last.stage = 4
  /\ ~session_state.simulate_failure
  /\ last.coin = <<TRUE>>
  /\ stage = 5
  /\ "guidelines" \in DOMAIN inputs


\* The telemetry events sent so far that are known to the model: the rows of
\* the sink and the row of the last run
KnownEvents == TelemetryEvents \o last.data

\* C16: a telemetry event has completed = true only when it is the event of
\* stage 6 ("Submission Preview"); every event of the stages 1 to 5,
\* including the retry and the two stop events, has completed = false.
C16_CompletedOnlyAtStage6 ==
  \A i \in DOMAIN KnownEvents :
    LET e == KnownEvents[i] IN
    /\ e.completed => (e.stage_number = 6
                       /\ e.button_clicked = "Submission Preview")
    /\ e.stage_number \in 1..5 => ~e.completed

C16_Witness ==
  /\ \E i \in DOMAIN sink : sink[i].completed /\ sink[i].stage_number = 6
  /\ \E i \in DOMAIN sink :
       sink[i].button_clicked = B_Retry /\ ~sink[i].completed
  /\ \E i \in DOMAIN sink :
       sink[i].button_clicked = B_Submit /\ ~sink[i].completed

\* C17: a run started by a change of a sidebar widget (no button clicked, no
\* rerun pending) changes neither the stage nor the inputs and stores no row.
C17_ToggleChangesNothing ==
  [][ (~rerun /\ last'.clicked = NoClick)
        => (stage' = stage /\ inputs' = inputs /\ sink' = sink) ]_vars

\* C18: every telemetry event has timestamp_end >= timestamp_start, and its
\* timestamp_start is the session's stage_start_time at the time the run
\* called log_to_supabase; stage_start_time is never ahead of the clock.
C18_EndNotBeforeStart ==
  /\ [](\A i \in DOMAIN KnownEvents :
          KnownEvents[i].timestamp_end >= KnownEvents[i].timestamp_start)
  /\ [](session_state.stage_start_time <= clock)
  /\ [][ last'.data # <<>>
           => /\ last'.data[1].timestamp_start = session_state.stage_start_time
              /\ last'.data[1].timestamp_end >= last'.data[1].timestamp_start
       ]_vars

C18_Witness ==
  /\ \E i \in DOMAIN sink :
       /\ sink[i].stage_number = 1
       /\ sink[i].timestamp_start > 0
       /\ sink[i].timestamp_end > sink[i].timestamp_start


\* C19: every telemetry event carries as stage_number the stage the session
\* was in when the run that sent it began, and the rows stored since the last
\* restart have non-decreasing stage numbers.
C19_EventStageIsCurrentStage ==
  /\ [](\A i, j \in (run_start + 1)..Len(sink) :
          i < j => sink[i].stage_number <= sink[j].stage_number)
  /\ [][ last'.data # <<>> => last'.data[1].stage_number = stage ]_vars

C19_Witness ==
  /\ run_start > 0
  /\ \E i \in 1..run_start : sink[i].stage_number = 6
  /\ \E i \in (run_start + 1)..Len(sink) : sink[i].stage_number = 1

\* C20: from stage 2 on inputs["summary"] is present and from stage 5 on
\* inputs["guidelines"] is present, so at stage 6 both are; no run other
\* than the one of a restart removes a key from the inputs.
C20_InputsPresent ==
  /\ [](stage >= 2 => "summary" \in DOMAIN inputs)
  /\ [](stage >= 5 => "guidelines" \in DOMAIN inputs)
  /\ [][ last'.clicked # B_Restart
           => DOMAIN inputs \subseteq DOMAIN inputs' ]_vars

C20_Witness ==
  /\ stage = 6
  /\ B_Restart \in buttons
  /\ DOMAIN inputs = {"summary", "guidelines"}
  /\ inputs["guidelines"] = <<"generated">>

====
